---- MODULE Spec2Model ----
(***************************************************************************)
(* Currency Exchange Helper (src/app.py): the capture cycle scheduling of  *)
(* MainWindow (timer ticks, the busy flag, the worker thread and the       *)
(* queued result/error signals) and the stability / debounce machine of    *)
(* MainWindow._handle_result with its display, expected-value and          *)
(* direction resolution.                                                   *)
(*                                                                         *)
(* Encoding.  A Python Optional is a sequence of length at most one:       *)
(* None is <<>> and a present value v is <<v>>.  Ratio numbers are floats  *)
(* with at most two fractional digits (OcrParser.ratio_re); they are held  *)
(* as integers in thousandths, so 1.5 is 1500.                             *)
(***************************************************************************)
EXTENDS Integers, Sequences, FiniteSets, TLC

VARIABLES
    ratio_region,    \* MainWindow._ratio_region : Optional[Region]
    left_region,     \* MainWindow._left_region
    right_region,    \* MainWindow._right_region
    timer_active,    \* MainWindow._timer.isActive()
    one_shots,       \* pending QTimer.singleShot(100, self._tick) calls
    busy,            \* MainWindow._busy
    paused,          \* MainWindow._paused
    swap_sides,      \* MainWindow._swap_sides
    calc_mode,       \* MainWindow._calc_mode
    auto_direction,  \* MainWindow._auto_direction
    last_inputs,     \* MainWindow._last_inputs : Optional[(int, int)]
    last_good,       \* MainWindow._last_good : Optional[ParseResult]
    pending_key,     \* MainWindow._pending_key : Optional[tuple]
    pending_count,   \* MainWindow._pending_count
    bad_streak,      \* MainWindow._bad_streak
    status,          \* text of MainWindow._status_label
    ui,              \* what _handle_result last wrote to the value widgets
    threads,         \* worker threads started by _tick and not yet finished
    events,          \* result_ready / error_ready emissions queued for the GUI thread
    last_handled,    \* history: the latest two _handle_result calls since a reset, newest first
    ocr_image,       \* what the OCR engine reads in the grabbed ratio image, or None
    ocr_fast,        \* the fast flag of the _ocr_ratio calls on that image
    ocr_runs,        \* the _ocr_ratio calls made on that image: locals at return and result
    call_args,       \* arguments of one call of a recognition helper and what the OCR engine reads, or None
    call_ret         \* that call's locals at return and its return value, or None

vars == <<ratio_region, left_region, right_region, timer_active, one_shots,
          busy, paused, swap_sides, calc_mode, auto_direction, last_inputs,
          last_good, pending_key, pending_count, bad_streak, status, ui,
          threads, events, last_handled, ocr_image, ocr_fast, ocr_runs,
          call_args, call_ret>>

ocr_vars == <<ocr_image, ocr_fast, ocr_runs, call_args, call_ret>>

window_vars == <<ratio_region, left_region, right_region, timer_active,
                 one_shots, busy, paused, swap_sides, calc_mode,
                 auto_direction, last_inputs, last_good, pending_key,
                 pending_count, bad_streak, status, ui, threads, events,
                 last_handled>>

-----------------------------------------------------------------------------
(* Bounds of the model.                                                    *)

MaxOneShots == 1      \* single-shot ticks that may be pending at once
MaxBadStreak == 4     \* cap on the unbounded _bad_streak counter
MaxPendingCount == 3  \* cap on the unbounded _pending_count counter
MaxThreads == 2       \* worker threads the model lets exist at once
MaxPasses == 3        \* OCR passes of a thorough _ocr_ratio call the model follows
MaxRuns == 2          \* _ocr_ratio calls made on one grabbed image
MaxCount == 3         \* foreground pixels the model lets a scanned column of the gap image hold
MaxBoxes == 2         \* character boxes the OCR engine reports for one variant

-----------------------------------------------------------------------------
(* Optional values.                                                        *)

None == <<>>
Some(v) == <<v>>
Val(o) == o[1]
Opt(S) == {None} \cup {Some(v) : v \in S}

Abs(x) == IF x < 0 THEN -x ELSE x

(* Region values the selector can return (Region is opaque to the core).   *)
Regions == {"A"}

(* Integers a box recognition can return (_extract_best_int: digit runs).  *)
BoxValues == {0, 50}

(* (numerator, denominator) pairs a ratio recognition can return, in       *)
(* thousandths: 3:7 and 3:0 (the raw-text fallback accepts a zero          *)
(* side).                                                                  *)
RatioPairs == {<<3000, 7000>>, <<3000, 0>>}

RawTexts == {"a", "b"}

ParseResult(rn, rd, l, r, raw) ==
    [ratio_num |-> rn, ratio_den |-> rd, left_value |-> l, right_value |-> r,
     raw_text |-> raw]

(* round(x, 2) of a value in thousandths.                                  *)
Round2(v) == ((v + 5) \div 10) * 10

(* ParseResult.key                                                          *)
Key(r) ==
    << IF r.ratio_num # None THEN Some(Round2(Val(r.ratio_num))) ELSE None,
       IF r.ratio_den # None THEN Some(Round2(Val(r.ratio_den))) ELSE None,
       r.left_value, r.right_value >>

(* ParseResult.has_ratio: abs(ratio_den) > 1e-9; one thousandth is the     *)
(* smallest non-zero magnitude of the encoding.                            *)
HasRatio(r) ==
    /\ r.ratio_num # None
    /\ r.ratio_den # None
    /\ Abs(Val(r.ratio_den)) > 0

(* _is_valid_result not asking for a usable ratio.                         *)
IsValidResultNoRatio(r) ==
    IF r.left_value = None /\ r.right_value = None THEN FALSE
    ELSE IF r.left_value # None /\ Val(r.left_value) <= 0 THEN FALSE
    ELSE IF r.right_value # None /\ Val(r.right_value) <= 0 THEN FALSE
    ELSE TRUE

(* MainWindow._is_valid_result                                             *)
IsValidResult(r) ==
    IF ~HasRatio(r) THEN FALSE
    ELSE IF r.left_value = None /\ r.right_value = None THEN FALSE
    ELSE IF r.left_value # None /\ Val(r.left_value) <= 0 THEN FALSE
    ELSE IF r.right_value # None /\ Val(r.right_value) <= 0 THEN FALSE
    ELSE TRUE

-----------------------------------------------------------------------------
(* Status vocabulary (the strings passed to _set_status).                  *)

StatusInitial == "Pick a region to start OCR."
StatusNoTesseract == "Tesseract OCR not found. Install it or set TESSERACT_PATH."
StatusHolding == "OCR unstable; holding last good values."
StatusLookingRatio == "Looking for market ratio..."
StatusLookingWant == "Looking for I want..."
StatusLookingHave == "Looking for I have..."
StatusUpdated == "OCR updated."
StatusSetRegions == "Set regions: <missing>."
StatusRunning == "Regions selected. Running OCR..."
ErrorNotFound == "Tesseract OCR not found. Install it or add to PATH."
ErrorGeneric == "OCR error: <exc>"

(* MainWindow._build_status                                                *)
BuildStatus(r) ==
    IF ~HasRatio(r) THEN StatusLookingRatio
    ELSE IF r.left_value = None THEN StatusLookingWant
    ELSE IF r.right_value = None THEN StatusLookingHave
    ELSE StatusUpdated

(* _compute_confidence scoring a ratio by its numerator alone.             *)
ComputeConfidenceNumOnly(r) ==
    (IF r.ratio_num # None THEN 50 ELSE 0)
    + (IF r.left_value # None THEN 25 ELSE 0)
    + (IF r.right_value # None THEN 25 ELSE 0)

(* MainWindow._compute_confidence                                          *)
ComputeConfidence(r) ==
    (IF HasRatio(r) THEN 50 ELSE 0)
    + (IF r.left_value # None THEN 25 ELSE 0)
    + (IF r.right_value # None THEN 25 ELSE 0)

(* Python round() of the non-negative rational n / d: nearest integer,     *)
(* ties to even.                                                           *)
RoundDiv(n, d) ==
    LET q == n \div d
        rem == n % d
    IN  IF 2 * rem < d THEN q
        ELSE IF 2 * rem > d THEN q + 1
        ELSE IF q % 2 = 0 THEN q ELSE q + 1

(* _compute_expected giving a value only when both inputs are present.     *)
ComputeExpectedNeedsBoth(left_input, right_input, r) ==
    IF ~HasRatio(r) \/ r.ratio_num = None \/ Abs(Val(r.ratio_num)) = 0
       \/ left_input = None \/ right_input = None
    THEN <<None, None>>
    ELSE << Some(RoundDiv(Val(right_input) * Val(r.ratio_num), Val(r.ratio_den))),
            Some(RoundDiv(Val(left_input) * Val(r.ratio_den), Val(r.ratio_num))) >>

(* MainWindow._compute_expected: <<expected_left, expected_right>>         *)
ComputeExpected(left_input, right_input, r) ==
    IF ~HasRatio(r) \/ r.ratio_num = None \/ Abs(Val(r.ratio_num)) = 0
    THEN <<None, None>>
    ELSE << IF right_input # None
            THEN Some(RoundDiv(Val(right_input) * Val(r.ratio_num), Val(r.ratio_den)))
            ELSE None,
            IF left_input # None
            THEN Some(RoundDiv(Val(left_input) * Val(r.ratio_den), Val(r.ratio_num)))
            ELSE None >>

(* _resolve_mode switching toward the side that changed less.              *)
ResolveModeSmallerDelta(left_input, right_input, ratio_num, ratio_den) ==
    IF calc_mode # "auto"
    THEN [mode |-> calc_mode, auto_direction |-> auto_direction]
    ELSE IF left_input = None /\ right_input # None
    THEN [mode |-> "from_right", auto_direction |-> auto_direction]
    ELSE IF right_input = None /\ left_input # None
    THEN [mode |-> "from_left", auto_direction |-> auto_direction]
    ELSE IF left_input = None \/ right_input = None
    THEN [mode |-> auto_direction, auto_direction |-> auto_direction]
    ELSE
      LET seeded ==
              IF ratio_num # None /\ ratio_den # None /\ Val(ratio_den) # 0
              THEN IF Val(ratio_num) < Val(ratio_den) THEN "from_left"
                   ELSE IF Val(ratio_num) > Val(ratio_den) THEN "from_right"
                   ELSE auto_direction
              ELSE auto_direction
      IN  IF last_inputs = None
          THEN [mode |-> seeded, auto_direction |-> seeded]
          ELSE
            LET left_delta == Abs(Val(left_input) - Val(last_inputs)[1])
                right_delta == Abs(Val(right_input) - Val(last_inputs)[2])
            IN  IF left_delta = 0 /\ right_delta = 0
                THEN [mode |-> seeded, auto_direction |-> seeded]
                ELSE IF left_delta <= right_delta
                THEN [mode |-> "from_left", auto_direction |-> "from_left"]
                ELSE [mode |-> "from_right", auto_direction |-> "from_right"]

(* MainWindow._resolve_mode: the direction returned and the value it       *)
(* leaves in _auto_direction.                                              *)
ResolveMode(left_input, right_input, ratio_num, ratio_den) ==
    IF calc_mode # "auto"
    THEN [mode |-> calc_mode, auto_direction |-> auto_direction]
    ELSE IF left_input = None /\ right_input # None
    THEN [mode |-> "from_right", auto_direction |-> auto_direction]
    ELSE IF right_input = None /\ left_input # None
    THEN [mode |-> "from_left", auto_direction |-> auto_direction]
    ELSE IF left_input = None \/ right_input = None
    THEN [mode |-> auto_direction, auto_direction |-> auto_direction]
    ELSE
      LET seeded ==
              IF ratio_num # None /\ ratio_den # None /\ Val(ratio_den) # 0
              THEN IF Val(ratio_num) < Val(ratio_den) THEN "from_left"
                   ELSE IF Val(ratio_num) > Val(ratio_den) THEN "from_right"
                   ELSE auto_direction
              ELSE auto_direction
      IN  IF last_inputs = None
          THEN [mode |-> seeded, auto_direction |-> seeded]
          ELSE
            LET left_delta == Abs(Val(left_input) - Val(last_inputs)[1])
                right_delta == Abs(Val(right_input) - Val(last_inputs)[2])
            IN  IF left_delta = 0 /\ right_delta = 0
                THEN [mode |-> seeded, auto_direction |-> seeded]
                ELSE IF left_delta >= right_delta
                THEN [mode |-> "from_left", auto_direction |-> "from_left"]
                ELSE [mode |-> "from_right", auto_direction |-> "from_right"]

(* MainWindow._normalize_inputs                                            *)
NormalizeInputs(left_value, right_value) ==
    IF swap_sides THEN <<right_value, left_value>> ELSE <<left_value, right_value>>

(* MainWindow._regions_ready                                               *)
RegionsReady == ratio_region # None /\ left_region # None /\ right_region # None

-----------------------------------------------------------------------------
(* The stability / debounce machine of _handle_result.                     *)

(* Debounce committing only at the third agreeing reading.                 *)
DebounceCommitsAtThree(result) ==
    IF IsValidResult(result)
    THEN LET key == Some(Key(result))
             count == IF key = pending_key THEN pending_count + 1 ELSE 1
         IN  [pending_key |-> key,
              pending_count |-> count,
              last_good |-> IF count >= 3 THEN Some(result) ELSE last_good,
              bad_streak |-> IF count >= 3 THEN 0 ELSE bad_streak]
    ELSE [pending_key |-> None,
          pending_count |-> 0,
          last_good |-> last_good,
          bad_streak |-> bad_streak + 1]

(* Debounce committing every valid reading at once.                        *)
DebounceCommitsAtOnce(result) ==
    IF IsValidResult(result)
    THEN LET key == Some(Key(result))
             count == IF key = pending_key THEN pending_count + 1 ELSE 1
         IN  [pending_key |-> key,
              pending_count |-> count,
              last_good |-> Some(result),
              bad_streak |-> 0]
    ELSE [pending_key |-> None,
          pending_count |-> 0,
          last_good |-> last_good,
          bad_streak |-> bad_streak + 1]

(* Debounce dropping the committed reading on an invalid one.              *)
DebounceForgetsOnInvalid(result) ==
    IF IsValidResult(result)
    THEN LET key == Some(Key(result))
             count == IF key = pending_key THEN pending_count + 1 ELSE 1
         IN  [pending_key |-> key,
              pending_count |-> count,
              last_good |-> IF count >= 2 THEN Some(result) ELSE last_good,
              bad_streak |-> IF count >= 2 THEN 0 ELSE bad_streak]
    ELSE [pending_key |-> None,
          pending_count |-> 0,
          last_good |-> None,
          bad_streak |-> bad_streak + 1]

(* Debounce counting a valid reading with a new key as a bad reading.      *)
DebounceCountsMismatch(result) ==
    IF IsValidResult(result)
    THEN LET key == Some(Key(result))
             count == IF key = pending_key THEN pending_count + 1 ELSE 1
         IN  [pending_key |-> key,
              pending_count |-> count,
              last_good |-> IF count >= 2 THEN Some(result) ELSE last_good,
              bad_streak |-> IF count >= 2 THEN 0
                             ELSE IF key = pending_key THEN bad_streak
                             ELSE bad_streak + 1]
    ELSE [pending_key |-> None,
          pending_count |-> 0,
          last_good |-> last_good,
          bad_streak |-> bad_streak + 1]

(* Debounce committing any reading that repeats, valid or not.             *)
DebounceCommitsRepeated(result) ==
    LET key == Some(Key(result))
        count == IF key = pending_key THEN pending_count + 1 ELSE 1
    IN  [pending_key |-> key,
         pending_count |-> count,
         last_good |-> IF count >= 2 THEN Some(result) ELSE last_good,
         bad_streak |-> IF count >= 2 THEN 0
                        ELSE IF IsValidResult(result) THEN bad_streak
                        ELSE bad_streak + 1]

(* Debounce ending the bad streak at every valid reading.                  *)
DebounceEndsStreakOnValid(result) ==
    IF IsValidResult(result)
    THEN LET key == Some(Key(result))
             count == IF key = pending_key THEN pending_count + 1 ELSE 1
         IN  [pending_key |-> key,
              pending_count |-> count,
              last_good |-> IF count >= 2 THEN Some(result) ELSE last_good,
              bad_streak |-> 0]
    ELSE [pending_key |-> None,
          pending_count |-> 0,
          last_good |-> last_good,
          bad_streak |-> bad_streak + 1]

(* The debounce update: the values _handle_result leaves in _last_good,    *)
(* _pending_key, _pending_count and _bad_streak.                           *)
Debounce(result) ==
    IF IsValidResult(result)
    THEN LET key == Some(Key(result))
             count == IF key = pending_key THEN pending_count + 1 ELSE 1
         IN  [pending_key |-> key,
              pending_count |-> count,
              last_good |-> IF count >= 2 THEN Some(result) ELSE last_good,
              bad_streak |-> IF count >= 2 THEN 0 ELSE bad_streak]
    ELSE [pending_key |-> None,
          pending_count |-> 0,
          last_good |-> last_good,
          bad_streak |-> bad_streak + 1]

(* The display rule preferring the committed reading to a valid one.       *)
DisplayPrefersGood(result, good) ==
    IF good # None THEN Val(good) ELSE result

(* The reading _handle_result displays; good is _last_good after the       *)
(* debounce update.                                                        *)
DisplayFor(result, good) ==
    IF IsValidResult(result) THEN result
    ELSE IF good # None THEN Val(good) ELSE result

(* The holding status given up one reading early.                          *)
ResultStatusHoldsShort(result, display, good, streak) ==
    IF ~IsValidResult(result) /\ good # None /\ streak < 3
    THEN StatusHolding
    ELSE BuildStatus(display)

(* The status _handle_result sets; good and streak are _last_good and      *)
(* _bad_streak after the debounce update.                                  *)
ResultStatus(result, display, good, streak) ==
    IF ~IsValidResult(result) /\ good # None /\ streak <= 3
    THEN StatusHolding
    ELSE BuildStatus(display)

-----------------------------------------------------------------------------
(* The capture cycle: _tick, the worker thread, the queued signals.        *)

(* The readings one run of _capture_and_ocr can produce before the sides   *)
(* are normalized: each of the ratio, the left box and the right box is    *)
(* the fast pass's value, or the thorough pass's when the fast pass        *)
(* returned none.                                                          *)
(* An escalation that lets the thorough value replace the fast one.        *)
EscalatePrefersThorough(fast, thorough) == IF thorough # None THEN thorough ELSE fast

Escalate(fast, thorough) == IF fast = None THEN thorough ELSE fast

CaptureOutcomes ==
    { [ratio |-> Escalate(fr, tr), left |-> Escalate(fl, tl),
       right |-> Escalate(fg, tg), raw |-> raw] :
        fr \in Opt(RatioPairs), tr \in Opt(RatioPairs),
        fl \in Opt(BoxValues), tl \in Opt(BoxValues),
        fg \in Opt(BoxValues), tg \in Opt(BoxValues),
        raw \in RawTexts }

(* The ParseResult _capture_and_ocr builds from an outcome; the swap flag  *)
(* is read when the sides are normalized, after all recognition.           *)
BuildResult(o) ==
    LET inputs == NormalizeInputs(o.left, o.right)
    IN  ParseResult(IF o.ratio = None THEN None ELSE Some(Val(o.ratio)[1]),
                    IF o.ratio = None THEN None ELSE Some(Val(o.ratio)[2]),
                    inputs[1], inputs[2], o.raw)

(* A reset trigger that runs while a cycle is in flight marks the cycle:   *)
(* its reading was captured or normalized under the old configuration.     *)
MarkStale(seq) == [i \in DOMAIN seq |-> [seq[i] EXCEPT !.stale = TRUE]]

(* _tick not looking at the busy flag.                                     *)
TickStartsWhileBusy == ~paused /\ RegionsReady

(* _tick not looking at the pause flag.                                    *)
TickStartsWhilePaused == ~busy /\ RegionsReady

(* The condition under which _tick starts a worker.                        *)
TickStarts == ~(paused \/ busy) /\ RegionsReady

(* MainWindow._tick                                                        *)
Tick ==
    /\ bad_streak < MaxBadStreak
    /\ pending_count < MaxPendingCount
    /\ Len(threads) + Len(events) < MaxThreads
    /\ IF TickStarts
       THEN /\ busy' = TRUE
            /\ threads' = Append(threads,
                   [regions |-> <<ratio_region, left_region, right_region>>,
                    stale |-> FALSE])
            /\ UNCHANGED status
       ELSE /\ status' = IF ~(paused \/ busy) THEN StatusSetRegions ELSE status
            /\ UNCHANGED <<busy, threads>>

(* The 600 ms timer fires.                                                 *)
TimerTick ==
    /\ timer_active
    /\ Tick
    /\ UNCHANGED <<ratio_region, left_region, right_region, timer_active,
                   one_shots, paused, swap_sides, calc_mode, auto_direction,
                   last_inputs, last_good, pending_key, pending_count,
                   bad_streak, ui, events, last_handled, ocr_vars>>

(* A QTimer.singleShot(100, self._tick) fires.                             *)
OneShotTick ==
    /\ one_shots > 0
    /\ one_shots' = one_shots - 1
    /\ Tick
    /\ UNCHANGED <<ratio_region, left_region, right_region, timer_active,
                   paused, swap_sides, calc_mode, auto_direction,
                   last_inputs, last_good, pending_key, pending_count,
                   bad_streak, ui, events, last_handled, ocr_vars>>

RemoveAt(seq, i) == SubSeq(seq, 1, i - 1) \o SubSeq(seq, i + 1, Len(seq))

(* What _run_ocr_task emits for a run of _capture_and_ocr that returns.    *)
TaskResult(t, o) ==
    [kind |-> "result", result |-> Some(BuildResult(o)), message |-> "",
     stale |-> t.stale]

(* What _run_ocr_task emits for a run that raises.                         *)
TaskError(t, message) ==
    [kind |-> "error", result |-> None, message |-> message, stale |-> t.stale]

(* MainWindow._run_ocr_task, _capture_and_ocr returning a reading drawn    *)
(* from outcomes.                                                          *)
WorkerReturns(outcomes) ==
    \E i \in DOMAIN threads : \E o \in outcomes :
        /\ events' = Append(events, TaskResult(threads[i], o))
        /\ threads' = RemoveAt(threads, i)
        /\ UNCHANGED <<ratio_region, left_region, right_region, timer_active,
                       one_shots, busy, paused, swap_sides, calc_mode,
                       auto_direction, last_inputs, last_good, pending_key,
                       pending_count, bad_streak, status, ui, last_handled, ocr_vars>>

(* The outcomes the scheduling specifications draw from: two valid         *)
(* readings with different keys (also after a swap of the sides), one of   *)
(* them with both box values, and an invalid one (no ratio).               *)
CycleOutcomes ==
    { o \in CaptureOutcomes :
        /\ o.raw = "a"
        /\ o.ratio \in {None, Some(<<3000, 7000>>)}
        /\ \/ o.left = Some(50) /\ o.right \in {None, Some(50)} /\ o.ratio # None
           \/ o.left = Some(50) /\ o.right = Some(50) /\ o.ratio = None }

WorkerResult == WorkerReturns(CycleOutcomes)

WorkerResultAny == WorkerReturns(CaptureOutcomes)

(* MainWindow._run_ocr_task, _capture_and_ocr raising                      *)
(* TesseractNotFoundError or another exception.                            *)
WorkerError ==
    \E i \in DOMAIN threads : \E message \in {ErrorNotFound, ErrorGeneric} :
        /\ events' = Append(events, TaskError(threads[i], message))
        /\ threads' = RemoveAt(threads, i)
        /\ UNCHANGED <<ratio_region, left_region, right_region, timer_active,
                       one_shots, busy, paused, swap_sides, calc_mode,
                       auto_direction, last_inputs, last_good, pending_key,
                       pending_count, bad_streak, status, ui, last_handled, ocr_vars>>

(* MainWindow._handle_result, run by the GUI thread for the oldest queued  *)
(* result_ready emission.                                                  *)
HandleResult ==
    /\ events # <<>>
    /\ Head(events).kind = "result"
    /\ LET result == Val(Head(events).result)
           is_valid == IsValidResult(result)
           st == Debounce(result)
           display == DisplayFor(result, st.last_good)
           left_input == display.left_value
           right_input == display.right_value
           expected == ComputeExpected(left_input, right_input, display)
           resolved == ResolveMode(left_input, right_input,
                                   display.ratio_num, display.ratio_den)
       IN  /\ last_good' = st.last_good
           /\ pending_key' = st.pending_key
           /\ pending_count' = st.pending_count
           /\ bad_streak' = st.bad_streak
           /\ auto_direction' = resolved.auto_direction
           /\ last_inputs' = IF is_valid /\ left_input # None /\ right_input # None
                             THEN Some(<<Val(left_input), Val(right_input)>>)
                             ELSE last_inputs
           /\ ui' = [display |-> Some(display),
                     raw_text |-> Some(result.raw_text),
                     expected_left |-> expected[1],
                     expected_right |-> expected[2],
                     mode |-> resolved.mode,
                     recommended_label |->
                         IF resolved.mode = "from_right"
                         THEN "Recommended I want" ELSE "Recommended I have",
                     recommended_value |->
                         IF resolved.mode = "from_right"
                         THEN expected[1] ELSE expected[2],
                     confidence |-> Some(ComputeConfidence(display))]
           /\ status' = ResultStatus(result, display, st.last_good, st.bad_streak)
           /\ last_handled' =
                  <<[key |-> IF is_valid THEN Some(Key(result)) ELSE None,
                     last_good |-> last_good,
                     pending_key |-> pending_key,
                     pending_count |-> pending_count]>>
                  \o (IF last_handled = <<>> THEN <<>> ELSE <<last_handled[1]>>)
    /\ busy' = FALSE
    /\ events' = Tail(events)
    /\ UNCHANGED <<ratio_region, left_region, right_region, timer_active,
                   one_shots, paused, swap_sides, calc_mode, threads, ocr_vars>>

(* _handle_error leaving the busy flag set.                                *)
HandleErrorKeepsBusy ==
    /\ events # <<>>
    /\ Head(events).kind = "error"
    /\ status' = Head(events).message
    /\ events' = Tail(events)
    /\ UNCHANGED <<ratio_region, left_region, right_region, timer_active,
                   one_shots, busy, paused, swap_sides, calc_mode,
                   auto_direction, last_inputs, last_good, pending_key,
                   pending_count, bad_streak, ui, threads, last_handled, ocr_vars>>

(* _handle_error dropping the pending reading.                             *)
HandleErrorClearsPending ==
    /\ events # <<>>
    /\ Head(events).kind = "error"
    /\ status' = Head(events).message
    /\ busy' = FALSE
    /\ events' = Tail(events)
    /\ pending_key' = None
    /\ pending_count' = 0
    /\ UNCHANGED <<ratio_region, left_region, right_region, timer_active,
                   one_shots, paused, swap_sides, calc_mode, auto_direction,
                   last_inputs, last_good, bad_streak, ui, threads,
                   last_handled, ocr_vars>>

(* MainWindow._handle_error, run by the GUI thread for the oldest queued   *)
(* error_ready emission.                                                   *)
HandleError ==
    /\ events # <<>>
    /\ Head(events).kind = "error"
    /\ status' = Head(events).message
    /\ busy' = FALSE
    /\ events' = Tail(events)
    /\ UNCHANGED <<ratio_region, left_region, right_region, timer_active,
                   one_shots, paused, swap_sides, calc_mode, auto_direction,
                   last_inputs, last_good, pending_key, pending_count,
                   bad_streak, ui, threads, last_handled, ocr_vars>>

-----------------------------------------------------------------------------
(* The user's handlers.                                                    *)

(* _set_region keeping the committed reading.                              *)
SetRegionResetKeepsGood ==
    [last_good |-> last_good, pending_key |-> None, pending_count |-> 0,
     last_inputs |-> last_inputs]

(* The debounce fields _set_region leaves (it does not touch _bad_streak   *)
(* or _last_inputs).                                                       *)
SetRegionReset ==
    [last_good |-> None, pending_key |-> None, pending_count |-> 0,
     last_inputs |-> last_inputs]

(* The debounce fields _toggle_swap leaves.                                *)
ToggleSwapReset ==
    [last_good |-> None, pending_key |-> None, pending_count |-> 0,
     last_inputs |-> None]

(* The debounce fields _change_mode leaves: it clears _last_inputs only.   *)
ChangeModeReset ==
    [last_good |-> last_good, pending_key |-> pending_key,
     pending_count |-> pending_count, last_inputs |-> None]

ApplyReset(reset) ==
    /\ last_good' = reset.last_good
    /\ pending_key' = reset.pending_key
    /\ pending_count' = reset.pending_count
    /\ last_inputs' = reset.last_inputs
    /\ threads' = MarkStale(threads)
    /\ events' = MarkStale(events)
    /\ last_handled' = <<>>

(* MainWindow._set_region, for the target _pick_region stored in           *)
(* _select_target before it showed the selector.                           *)
SetRegion(target, region) ==
    LET ratio == IF target = "ratio" THEN Some(region) ELSE ratio_region
        left == IF target = "left" THEN Some(region) ELSE left_region
        right == IF target = "right" THEN Some(region) ELSE right_region
        ready == ratio # None /\ left # None /\ right # None
    IN  /\ ready => one_shots < MaxOneShots
        /\ ratio_region' = ratio
        /\ left_region' = left
        /\ right_region' = right
        /\ ApplyReset(SetRegionReset)
        /\ status' = IF ready THEN StatusRunning
                     ELSE IF target = "ratio" THEN "Ratio region set."
                     ELSE IF target = "left" THEN "Left box region set."
                     ELSE "Right box region set."
        /\ timer_active' = (timer_active \/ ready)
        /\ one_shots' = IF ready THEN one_shots + 1 ELSE one_shots
        /\ UNCHANGED <<busy, paused, swap_sides, calc_mode, auto_direction,
                       bad_streak, ui, ocr_vars>>

(* MainWindow._toggle_pause                                                *)
TogglePause ==
    /\ paused' = ~paused
    /\ status' = IF ~paused THEN "OCR paused." ELSE "OCR resumed."
    /\ UNCHANGED <<ratio_region, left_region, right_region, timer_active,
                   one_shots, busy, swap_sides, calc_mode, auto_direction,
                   last_inputs, last_good, pending_key, pending_count,
                   bad_streak, ui, threads, events, last_handled, ocr_vars>>

(* MainWindow._toggle_swap; stateChanged is emitted when the check box     *)
(* changes, so the new state is the opposite of the flag.                  *)
ToggleSwap ==
    /\ RegionsReady => one_shots < MaxOneShots
    /\ swap_sides' = ~swap_sides
    /\ ApplyReset(ToggleSwapReset)
    /\ status' = IF ~swap_sides THEN "Swapped left/right inputs."
                 ELSE "Using left/right inputs."
    /\ one_shots' = IF RegionsReady THEN one_shots + 1 ELSE one_shots
    /\ UNCHANGED <<ratio_region, left_region, right_region, timer_active,
                   busy, paused, calc_mode, auto_direction, bad_streak, ui, ocr_vars>>

(* The mode _change_mode selects for a combo box index.                    *)
ModeOfIndex(index) ==
    IF index = 1 THEN "from_right"
    ELSE IF index = 2 THEN "from_left"
    ELSE "auto"

(* f"Mode set to {self._mode_combo.currentText()}."                        *)
ModeStatus(index) ==
    IF index = 1 THEN "Mode set to I have -> calc I want."
    ELSE IF index = 2 THEN "Mode set to I want -> calc I have."
    ELSE "Mode set to Auto."

(* MainWindow._change_mode; currentIndexChanged is emitted when the index  *)
(* changes.                                                                *)
ChangeMode(index) ==
    /\ ModeOfIndex(index) # calc_mode
    /\ RegionsReady => one_shots < MaxOneShots
    /\ calc_mode' = ModeOfIndex(index)
    /\ ApplyReset(ChangeModeReset)
    /\ status' = ModeStatus(index)
    /\ one_shots' = IF RegionsReady THEN one_shots + 1 ELSE one_shots
    /\ UNCHANGED <<ratio_region, left_region, right_region, timer_active,
                   busy, paused, swap_sides, auto_direction, bad_streak, ui, ocr_vars>>

-----------------------------------------------------------------------------
(* MainWindow.__init__: the fields' initial values, then _load_regions     *)
(* with no config.json or with one holding any regions, swap flag and      *)
(* mode (a loaded swap flag or mode fires _toggle_swap / _change_mode      *)
(* through the widgets' change signals).                                   *)
Init ==
    /\ ratio_region \in Opt(Regions)
    /\ left_region \in Opt(Regions)
    /\ right_region \in Opt(Regions)
    /\ swap_sides \in BOOLEAN
    /\ calc_mode \in {"auto", "from_right", "from_left"}
    /\ timer_active = RegionsReady
    /\ one_shots = (IF RegionsReady /\ swap_sides THEN 1 ELSE 0)
                   + (IF RegionsReady /\ calc_mode # "auto" THEN 1 ELSE 0)
    /\ one_shots <= MaxOneShots
    /\ status \in IF calc_mode = "from_right" THEN {ModeStatus(1)}
                  ELSE IF calc_mode = "from_left" THEN {ModeStatus(2)}
                  ELSE IF swap_sides THEN {"Swapped left/right inputs."}
                  ELSE {StatusInitial, StatusNoTesseract}
    /\ busy = FALSE
    /\ paused = FALSE
    /\ auto_direction = "from_right"
    /\ last_inputs = None
    /\ last_good = None
    /\ pending_key = None
    /\ pending_count = 0
    /\ bad_streak = 0
    /\ ui = [display |-> None, raw_text |-> None, expected_left |-> None,
             expected_right |-> None, mode |-> "",
             recommended_label |-> "Recommended value",
             recommended_value |-> None, confidence |-> None]
    /\ threads = <<>>
    /\ events = <<>>
    /\ last_handled = <<>>
    /\ ocr_image = None
    /\ ocr_fast = TRUE
    /\ ocr_runs = <<>>
    /\ call_args = None
    /\ call_ret = None

(* A region is picked and selected.                                        *)
SelectRegion ==
    \E target \in {"ratio", "left", "right"} : \E region \in Regions :
        SetRegion(target, region)

(* Another entry of the mode combo box is chosen.                          *)
SelectMode == \E index \in 0..2 : ChangeMode(index)

Next ==
    \/ TimerTick
    \/ OneShotTick
    \/ WorkerResult
    \/ WorkerError
    \/ HandleResult
    \/ HandleError
    \/ SelectRegion
    \/ TogglePause
    \/ ToggleSwap
    \/ SelectMode

Spec == Init /\ [][Next]_vars

(* The capture cycle under pause and region re-selection, the sides not    *)
(* swapped and the mode auto.                                              *)
InitCycle == Init /\ ~swap_sides /\ calc_mode = "auto"

NextCycle ==
    \/ TimerTick
    \/ OneShotTick
    \/ WorkerResult
    \/ WorkerError
    \/ HandleResult
    \/ HandleError
    \/ SelectRegion
    \/ TogglePause

CycleSpec == InitCycle /\ [][NextCycle]_vars

(* The worker thread runs to completion and the Qt event loop delivers     *)
(* every queued signal emission.                                           *)
FairCycleSpec ==
    /\ CycleSpec
    /\ WF_vars(WorkerResult \/ WorkerError)
    /\ WF_vars(HandleResult \/ HandleError)

(* The capture cycle under the three reset triggers, never paused.         *)
NextReset ==
    \/ TimerTick
    \/ OneShotTick
    \/ WorkerResult
    \/ WorkerError
    \/ HandleResult
    \/ HandleError
    \/ SelectRegion
    \/ ToggleSwap
    \/ SelectMode

ResetSpec == Init /\ [][NextReset]_vars

(* The stability machine on every reading a cycle can produce: the window  *)
(* starts with its regions configured, in auto mode with the sides not     *)
(* swapped, and the user leaves it alone.                                  *)
InitStability ==
    Init /\ RegionsReady /\ calc_mode = "auto" /\ ~swap_sides /\ status = StatusInitial

NextStability ==
    \/ TimerTick
    \/ WorkerResultAny
    \/ HandleResult

StabilitySpec == InitStability /\ [][NextStability]_vars

(* The expected values and the direction resolver on readings whose box   *)
(* values move between cycles: both boxes read under a 7:3 ratio with the  *)
(* left or the right one changing, one box alone under 3:7, both under    *)
(* the ratio 0:7 that the raw-text fallback can return, and both with no   *)
(* ratio.                                                                  *)
ResolverOutcomes ==
    { [ratio |-> Some(<<7000, 3000>>), left |-> Some(50), right |-> Some(80), raw |-> "a"],
      [ratio |-> Some(<<7000, 3000>>), left |-> Some(52), right |-> Some(80), raw |-> "a"],
      [ratio |-> Some(<<7000, 3000>>), left |-> Some(50), right |-> Some(100), raw |-> "a"],
      [ratio |-> Some(<<3000, 7000>>), left |-> None, right |-> Some(100), raw |-> "a"],
      [ratio |-> Some(<<3000, 7000>>), left |-> Some(50), right |-> None, raw |-> "a"],
      [ratio |-> Some(<<0, 7000>>), left |-> Some(50), right |-> Some(80), raw |-> "a"],
      [ratio |-> None, left |-> Some(50), right |-> Some(80), raw |-> "a"] }

WorkerResultResolver == WorkerReturns(ResolverOutcomes)

NextResolver ==
    \/ TimerTick
    \/ WorkerResultResolver
    \/ HandleResult

ResolverSpec == InitStability /\ [][NextResolver]_vars

-----------------------------------------------------------------------------
(* The ratio engine: _ocr_ratio on what the OCR engine reads in an image.  *)

(* A number as ratio_re matches it: the digits before the separator and,   *)
(* when a separator follows, the one or two digits after it as hundredths. *)
Token(whole, frac) == [whole |-> whole, frac |-> frac]

(* A text returned by the OCR engine: the string and its ratio_re matches  *)
(* in order.                                                               *)
Text(raw, matches) == [raw |-> raw, matches |-> matches]

NoText == Text("", <<>>)

Texts ==
    { NoText,
      Text("3:7", << <<Token(3, None), Token(7, None)>> >>),
      Text("1:7", << <<Token(1, None), Token(7, None)>> >>),
      Text("7:3", << <<Token(7, None), Token(3, None)>> >>),
      Text("0:7", << <<Token(0, None), Token(7, None)>> >>) }

(* Texts _ratio_text_from_boxes reassembles.                               *)
BoxTexts ==
    { NoText,
      Text("1:7", << <<Token(1, None), Token(7, None)>> >>),
      Text("1.5:7", << <<Token(1, Some(50)), Token(7, None)>> >>) }

(* Values _ocr_ratio_side reads in one half of a split image.              *)
SideValues == {0, 7000}

(* thresholds x variants x configs of a fast call: 1 x 2 x 1.              *)
FastPasses == 2

(* The number of _ratio_configs a thorough call runs on each variant.      *)
FullConfigs == 3

(* The passes of a call: all of a fast one, the first MaxPasses of a       *)
(* thorough one.                                                           *)
PassCount(fast) == IF fast THEN FastPasses ELSE MaxPasses

(* The passes after which the character boxes and the gap split can be   *)
(* tried: the end of the configuration loop of the first variant that      *)
(* _is_binary_image accepts, 0 when there is none. The two variants of a   *)
(* fast call are inverses of each other, so both are binary or neither.    *)
CheckPositions(fast) ==
    IF fast THEN {0, 1}
    ELSE {0} \cup {k \in 1..MaxPasses : k % FullConfigs = 0}

(* The images a call can be given: the text of each pass, the pass after   *)
(* which the boxes and the split are tried, and what they give.            *)
ImagesFor(fast) ==
    { [passes |-> ps, check_after |-> c, box_text |-> b, split |-> sp] :
        ps \in [1..PassCount(fast) -> Texts],
        c \in CheckPositions(fast),
        b \in BoxTexts,
        sp \in Opt(Opt(SideValues) \X Opt(SideValues)) }

(* MainWindow._parse_ratio_token, values in thousandths.                   *)
ParseRatioToken(token) ==
    IF token.frac # None
    THEN [value |-> Some(token.whole * 1000 + Val(token.frac) * 10),
          explicit |-> TRUE, inferred |-> FALSE]
    ELSE IF token.whole >= 1000 /\ token.whole % 100 # 0
    THEN [value |-> Some(token.whole * 10), explicit |-> FALSE, inferred |-> TRUE]
    ELSE [value |-> Some(token.whole * 1000), explicit |-> FALSE, inferred |-> FALSE]

(* MainWindow._score_ratio                                                 *)
ScoreRatio(num, den, explicit_decimal, inferred_decimal) ==
    (IF num > 0 /\ den > 0 THEN 10 ELSE 0)
    + (IF num = 1000 \/ den = 1000 THEN 4 ELSE 0)
    + (IF num <= 10000000 /\ den <= 10000000 THEN 4 ELSE 0)
    + (IF num <= 1000000 /\ den <= 1000000 THEN 2 ELSE 0)
    + (IF explicit_decimal THEN 3 ELSE 0)
    + (IF inferred_decimal THEN 1 ELSE 0)
    + (IF num # den THEN 1 ELSE 0)

(* key = (round(num_value, 2), round(den_value, 2))                        *)
CandidateKey(num, den) == <<Round2(num), Round2(den)>>

(* The update of candidate_map for one accepted pair; the map is kept as   *)
(* the sequence of its entries in insertion order, as a dict iterates.     *)
AddCandidate(map, key, score) ==
    IF \E i \in DOMAIN map : map[i].key = key
    THEN [i \in DOMAIN map |->
            IF map[i].key = key
            THEN [key |-> key, count |-> map[i].count + 1,
                  score |-> IF score > map[i].score THEN score ELSE map[i].score]
            ELSE map[i]]
    ELSE Append(map, [key |-> key, count |-> 1, score |-> score])

(* The loop over ratio_re.finditer(text) of the whole-string passes        *)
(* (bonus 0) and of the character-box text (bonus 2).                      *)
RECURSIVE AddMatches(_, _, _)
AddMatches(map, matches, bonus) ==
    IF matches = <<>> THEN map
    ELSE LET num == ParseRatioToken(Head(matches)[1])
             den == ParseRatioToken(Head(matches)[2])
             next ==
                 IF num.value = None \/ den.value = None THEN map
                 ELSE IF Val(num.value) <= 0 \/ Val(den.value) <= 0 THEN map
                 ELSE AddCandidate(map,
                          CandidateKey(Val(num.value), Val(den.value)),
                          ScoreRatio(Val(num.value), Val(den.value),
                                     num.explicit \/ den.explicit,
                                     num.inferred \/ den.inferred) + bonus)
         IN  AddMatches(next, Tail(matches), bonus)

(* The gap-split branch: both sides read, the pair is registered with      *)
(* bonus 3.                                                                *)
AddSplit(map, split) ==
    IF split = None THEN map
    ELSE LET left_value == Val(split)[1]
             right_value == Val(split)[2]
         IN  IF left_value = None \/ right_value = None THEN map
             ELSE AddCandidate(map,
                      CandidateKey(Val(left_value), Val(right_value)),
                      ScoreRatio(Val(left_value), Val(right_value), FALSE, FALSE) + 3)

(* The nested loops of _ocr_ratio from pass i on; acc holds candidate_map  *)
(* and best_text.                                                          *)
RECURSIVE ScanFrom(_, _, _)
ScanFrom(image, i, acc) ==
    IF i > Len(image.passes) THEN acc
    ELSE LET text == image.passes[i]
             best == IF text.raw # "" THEN text ELSE acc.best_text
             scanned == AddMatches(acc.map, text.matches, 0)
             checks == (i = image.check_after)
             boxed == IF /\ checks
                         /\ image.box_text.raw # ""
                         /\ image.box_text.raw # best.raw
                      THEN AddMatches(scanned, image.box_text.matches, 2)
                      ELSE scanned
             gapped == IF checks THEN AddSplit(boxed, image.split) ELSE boxed
         IN  ScanFrom(image, i + 1, [map |-> gapped, best_text |-> best])

(* e ranks at least as high as f by (count, score).                        *)
RanksAtLeast(e, f) ==
    f.count < e.count \/ (f.count = e.count /\ f.score <= e.score)

(* The resolution ranking by (score, count).                               *)
BestCandidateByScore(map) ==
    map[CHOOSE i \in DOMAIN map :
            /\ \A j \in DOMAIN map :
                  \/ map[j].score < map[i].score
                  \/ (map[j].score = map[i].score /\ map[j].count <= map[i].count)
            /\ \A j \in 1..(i - 1) :
                  ~(map[j].score = map[i].score /\ map[j].count = map[i].count)]

(* The resolution taking the last of several equally ranked keys in every  *)
(* call after the first on an image.                                       *)
BestCandidateUnstable(map) ==
    map[CHOOSE i \in DOMAIN map :
            /\ \A j \in DOMAIN map : RanksAtLeast(map[i], map[j])
            /\ IF ocr_runs = <<>>
               THEN \A j \in 1..(i - 1) : ~RanksAtLeast(map[j], map[i])
               ELSE \A j \in (i + 1)..Len(map) : ~RanksAtLeast(map[j], map[i])]

(* max(candidate_map.items(), key=(count, score)): the first entry in      *)
(* insertion order among those of the highest rank.                        *)
BestCandidate(map) ==
    map[CHOOSE i \in DOMAIN map :
            /\ \A j \in DOMAIN map : RanksAtLeast(map[i], map[j])
            /\ \A j \in 1..(i - 1) : ~RanksAtLeast(map[j], map[i])]

(* OcrParser._collect_ratios: float() of both sides of every match.        *)
TokenFloat(token) ==
    token.whole * 1000 + (IF token.frac # None THEN Val(token.frac) * 10 ELSE 0)

CollectRatios(text) ==
    [i \in DOMAIN text.matches |->
        <<TokenFloat(text.matches[i][1]), TokenFloat(text.matches[i][2])>>]

(* max(ratios, key=(pair[1], pair[0])): the first of the highest.          *)
BestRatio(ratios) ==
    ratios[CHOOSE i \in DOMAIN ratios :
              /\ \A j \in DOMAIN ratios :
                    \/ ratios[j][2] < ratios[i][2]
                    \/ (ratios[j][2] = ratios[i][2] /\ ratios[j][1] <= ratios[i][1])
              /\ \A j \in 1..(i - 1) : ratios[j] # ratios[i]]

(* What _ocr_ratio returns after its loops: the best candidate, else the   *)
(* best pair of the raw text, else nothing; formatted tells whether the    *)
(* returned text is the formatted pair or best_text.                       *)
OcrRatioReturn(acc) ==
    IF acc.map # <<>>
    THEN LET best == BestCandidate(acc.map)
         IN  [num |-> Some(best.key[1]), den |-> Some(best.key[2]),
              formatted |-> TRUE]
    ELSE LET ratios == CollectRatios(acc.best_text)
         IN  IF ratios # <<>>
             THEN [num |-> Some(BestRatio(ratios)[1]),
                   den |-> Some(BestRatio(ratios)[2]), formatted |-> TRUE]
             ELSE [num |-> None, den |-> None, formatted |-> FALSE]

(* _grab_region: the ratio image of a cycle is grabbed.                    *)
GrabRatioImage ==
    /\ ocr_image = None
    /\ \E fast \in BOOLEAN : \E image \in ImagesFor(fast) :
          /\ ocr_fast' = fast
          /\ ocr_image' = Some(image)
    /\ ocr_runs' = <<>>
    /\ UNCHANGED <<call_args, call_ret, window_vars>>

(* MainWindow._ocr_ratio called on the grabbed image.                      *)
RunOcrRatio ==
    /\ ocr_image # None
    /\ Len(ocr_runs) < MaxRuns
    /\ LET acc == ScanFrom(Val(ocr_image), 1, [map |-> <<>>, best_text |-> NoText])
       IN  ocr_runs' = Append(ocr_runs,
                              [candidate_map |-> acc.map,
                               best_text |-> acc.best_text.raw,
                               out |-> OcrRatioReturn(acc)])
    /\ UNCHANGED <<ocr_image, ocr_fast, call_args, call_ret, window_vars>>

NextRatio ==
    \/ GrabRatioImage
    \/ RunOcrRatio

RatioSpec == InitStability /\ [][NextRatio]_vars

(* The orders in which the same pass outputs can come out of the           *)
(* threshold, variant and configuration loops.                             *)
Reorderings(passes) ==
    { [i \in DOMAIN passes |-> passes[p[i]]] : p \in Permutations(DOMAIN passes) }

(* After one _ocr_ratio call, the image is one on which the passes read    *)
(* the same texts in another order; the next call scans that order.        *)
GrabReorderedImage ==
    /\ ocr_image # None
    /\ Len(ocr_runs) = 1
    /\ \E ps \in Reorderings(Val(ocr_image).passes) :
          ocr_image' = Some([Val(ocr_image) EXCEPT !.passes = ps])
    /\ UNCHANGED <<ocr_fast, ocr_runs, call_args, call_ret, window_vars>>

NextOrder ==
    \/ GrabRatioImage
    \/ RunOcrRatio
    \/ GrabReorderedImage

OrderSpec == InitStability /\ [][NextOrder]_vars

(***************************************************************************)
(* The variants of one _ocr_ratio call and the sub-steps run on them.      *)
(***************************************************************************)

(* The intensities that occur in a grayscale variant.                      *)
PixelSets == {{0, 255}, {0, 1}, {0, 128, 255}, {0, 128}, {128, 255}, {128},
              {0}, {255}}

(* The threshold levels of a ratio call (line 1227).                       *)
RatioThresholds(fast) == IF fast THEN <<170>> ELSE <<170, 150, 130, 110>>

(* _preprocess_variants, lines 1027-1028: binarize the median image at a   *)
(* threshold level, and invert the binarized image.                        *)
Binarize(pixels, level) == {IF p > level THEN 255 ELSE 0 : p \in pixels}
Invert(pixels) == {255 - p : p \in pixels}

(* The variants of one threshold level, in the order they are returned.    *)
PreprocessVariants(sharpened, median, level, fast) ==
    LET threshold == Binarize(median, level)
        binary == <<[kind |-> "threshold", level |-> level, pixels |-> threshold],
                    [kind |-> "inverted", level |-> level, pixels |-> Invert(threshold)]>>
    IN  IF fast THEN binary
        ELSE <<[kind |-> "sharpened", level |-> level, pixels |-> sharpened],
               [kind |-> "median", level |-> level, pixels |-> median]>> \o binary

(* The variants of a whole call in loop order (lines 1234-1237).           *)
RECURSIVE VariantsFrom(_, _, _, _)
VariantsFrom(sharpened, median, fast, k) ==
    IF k > Len(RatioThresholds(fast)) THEN <<>>
    ELSE PreprocessVariants(sharpened, median, RatioThresholds(fast)[k], fast)
            \o VariantsFrom(sharpened, median, fast, k + 1)

(* Image.getextrema of a single-band image.                                *)
Extrema(pixels) ==
    <<CHOOSE lo \in pixels : \A p \in pixels : lo <= p,
      CHOOSE hi \in pixels : \A p \in pixels : p <= hi>>

(* MainWindow._is_binary_image.                                            *)
IsBinaryImage(pixels) == Extrema(pixels) \in {<<0, 255>>, <<0, 1>>}

(* A sub-step that runs on every variant _is_binary_image accepts.         *)
RunsSubStepEveryTime(checked, pixels) == IsBinaryImage(pixels)

(* The guard of the box correction and of the gap split (lines 1258,       *)
(* 1279): the sub-step has not run in this call and the variant is         *)
(* accepted by _is_binary_image.                                           *)
RunsSubStep(checked, pixels) == ~checked /\ IsBinaryImage(pixels)

(* The variant loop of _ocr_ratio: which variants _is_binary_image         *)
(* accepts, and on which variants the box correction and the gap split     *)
(* run.                                                                    *)
RECURSIVE ScanVariants(_, _, _)
ScanVariants(variants, i, acc) ==
    IF i > Len(variants) THEN acc
    ELSE LET boxes == RunsSubStep(acc.boxes_checked, variants[i].pixels)
             split == RunsSubStep(acc.split_checked, variants[i].pixels)
         IN  ScanVariants(variants, i + 1,
                 [boxes_checked |-> acc.boxes_checked \/ boxes,
                  split_checked |-> acc.split_checked \/ split,
                  accepted |-> IF IsBinaryImage(variants[i].pixels)
                               THEN Append(acc.accepted, i) ELSE acc.accepted,
                  boxes_on |-> IF boxes THEN Append(acc.boxes_on, i) ELSE acc.boxes_on,
                  split_on |-> IF split THEN Append(acc.split_on, i) ELSE acc.split_on])

(* The ratio image of a call is prepared: the intensities of its           *)
(* sharpened and median images.                                            *)
PrepareRatioImage ==
    /\ call_args = None
    /\ \E fast \in BOOLEAN, sharpened \in PixelSets, median \in PixelSets :
          call_args' = Some([fast |-> fast, sharpened |-> sharpened, median |-> median])
    /\ call_ret' = None
    /\ UNCHANGED <<ocr_image, ocr_fast, ocr_runs, window_vars>>

(* The variant loop of MainWindow._ocr_ratio on the prepared image.        *)
OcrRatioVariants ==
    /\ call_args # None
    /\ call_ret = None
    /\ LET a == Val(call_args)
           variants == VariantsFrom(a.sharpened, a.median, a.fast, 1)
       IN  call_ret' = Some([variants |-> variants,
                             scan |-> ScanVariants(variants, 1,
                                         [boxes_checked |-> FALSE, split_checked |-> FALSE,
                                          accepted |-> <<>>, boxes_on |-> <<>>,
                                          split_on |-> <<>>])])
    /\ UNCHANGED <<call_args, ocr_image, ocr_fast, ocr_runs, window_vars>>

NextVariant ==
    \/ PrepareRatioImage
    \/ OcrRatioVariants

VariantSpec == InitStability /\ [][NextVariant]_vars

(***************************************************************************)
(* The gap split (_split_ratio_by_gap).                                    *)
(***************************************************************************)

(* Sizes of the binarized image handed to the gap split.                   *)
GapWidths == {5, 6, 8}
GapHeights == {3, 4, 13, 14, 20}

(* The columns scanned for the gap: range(int(width * 0.25),               *)
(* int(width * 0.75)), 0-based.                                            *)
MiddleColumns(width) == ((width * 25) \div 100) .. (((width * 75) \div 100) - 1)

(* The foreground counts the middle columns of an image can have.          *)
ColumnCounts(width, height) ==
    [MiddleColumns(width) -> 0 .. (IF height < MaxCount THEN height ELSE MaxCount)]

(* A separator limit of 15% of the height alone.                           *)
SeparatorLimitOfHeight(height) == (height * 15) \div 100

(* max(2, int(height * 0.15)), line 1091.                                  *)
SeparatorLimit(height) ==
    IF (height * 15) \div 100 > 2 THEN (height * 15) \div 100 ELSE 2

(* MainWindow._split_ratio_by_gap: the locals min_count and min_idx and    *)
(* the widths of the two crops, or None for no split.                      *)
SplitRatioByGap(width, height, counts) ==
    IF width < 6 \/ height < 4
    THEN [min_count |-> None, min_idx |-> None, split |-> None]
    ELSE LET cols == MiddleColumns(width)
             min_idx == CHOOSE x \in cols :
                            /\ \A y \in cols : counts[x] <= counts[y]
                            /\ \A y \in cols : y < x => counts[y] > counts[x]
             min_count == counts[min_idx]
             left_width == min_idx
             right_width == width - (min_idx + 1)
         IN  [min_count |-> Some(min_count), min_idx |-> Some(min_idx),
              split |-> IF min_count > SeparatorLimit(height) THEN None
                        ELSE IF left_width < 2 \/ right_width < 2 THEN None
                        ELSE Some(<<left_width, right_width>>)]

(* A binary variant is handed to the gap split.                            *)
TakeGapImage ==
    /\ call_args = None
    /\ \E width \in GapWidths, height \in GapHeights :
          \E counts \in ColumnCounts(width, height) :
              call_args' = Some([width |-> width, height |-> height, counts |-> counts])
    /\ call_ret' = None
    /\ UNCHANGED <<ocr_image, ocr_fast, ocr_runs, window_vars>>

(* MainWindow._split_ratio_by_gap on that image.                           *)
SplitByGap ==
    /\ call_args # None
    /\ call_ret = None
    /\ LET a == Val(call_args)
       IN  call_ret' = Some(SplitRatioByGap(a.width, a.height, a.counts))
    /\ UNCHANGED <<call_args, ocr_image, ocr_fast, ocr_runs, window_vars>>

NextGap ==
    \/ TakeGapImage
    \/ SplitByGap

GapSpec == InitStability /\ [][NextGap]_vars

(***************************************************************************)
(* The character-box correction (_ratio_text_from_boxes).                  *)
(***************************************************************************)

(* The characters image_to_boxes reports; "x" stands for any character     *)
(* outside "0123456789:.,/".                                               *)
BoxChars == {"1", "7", ":", "x"}
RatioChars == {"1", "7", ":"}

(* Box shapes as <<width, box_height>>: aspect 0.3, 0.5 and 0.7.           *)
BoxShapes == {<<3, 10>>, <<5, 10>>, <<7, 10>>}

(* One line of the engine's box data, with what _classify_digit_1_7        *)
(* returns on the character's crop when it is called.                      *)
BoxLines ==
    { [char |-> c, x1 |-> x, width |-> sh[1], box_height |-> sh[2], classified |-> k] :
        c \in {"1", "7"}, x \in {0, 10}, sh \in BoxShapes, k \in Opt({"1", "7"}) }
    \cup
    { [char |-> c, x1 |-> x, width |-> 5, box_height |-> 10, classified |-> None] :
        c \in {":", "x"}, x \in {0, 10} }

BoxData == UNION {[1..n -> BoxLines] : n \in 0..MaxBoxes}

(* A correction that leaves the recognizer's character alone whenever the  *)
(* classifier is inconclusive.                                             *)
CorrectCharKeepsGuess(line) ==
    IF line.char \in {"1", "7"} /\ line.classified # None
    THEN Val(line.classified) ELSE line.char

(* Lines 1185-1192: the character kept for a box.                          *)
CorrectChar(line) ==
    IF line.char \in {"1", "7"}
    THEN IF line.classified # None THEN Val(line.classified)
         ELSE IF line.char = "7" /\ 100 * line.width < 35 * line.box_height THEN "1"
         ELSE IF line.char = "1" /\ 100 * line.width > 60 * line.box_height THEN "7"
         ELSE line.char
    ELSE line.char

(* The items list: one entry per line whose character is a ratio           *)
(* character, in the order of the lines.                                   *)
RECURSIVE BoxItems(_, _)
BoxItems(data, i) ==
    IF i > Len(data) THEN <<>>
    ELSE (IF data[i].char \in RatioChars
          THEN <<[x1 |-> data[i].x1, char |-> CorrectChar(data[i]), line |-> i]>>
          ELSE <<>>) \o BoxItems(data, i + 1)

(* items.sort(key=x1): a stable sort.                                      *)
RECURSIVE InsertItem(_, _)
InsertItem(sorted, item) ==
    IF sorted = <<>> THEN <<item>>
    ELSE IF sorted[Len(sorted)].x1 <= item.x1 THEN Append(sorted, item)
    ELSE Append(InsertItem(SubSeq(sorted, 1, Len(sorted) - 1), item), sorted[Len(sorted)])

RECURSIVE SortItems(_, _, _)
SortItems(items, i, sorted) ==
    IF i > Len(items) THEN sorted
    ELSE SortItems(items, i + 1, InsertItem(sorted, items[i]))

(* MainWindow._ratio_text_from_boxes: the items and the joined text.       *)
RatioTextFromBoxes(data) ==
    LET items == SortItems(BoxItems(data, 1), 1, <<>>)
    IN  [items |-> items, text |-> [i \in DOMAIN items |-> items[i].char]]

(* The OCR engine reports the character boxes of a binary variant.         *)
ReadBoxes ==
    /\ call_args = None
    /\ \E data \in BoxData : call_args' = Some(data)
    /\ call_ret' = None
    /\ UNCHANGED <<ocr_image, ocr_fast, ocr_runs, window_vars>>

(* MainWindow._ratio_text_from_boxes on those boxes.                       *)
TextFromBoxes ==
    /\ call_args # None
    /\ call_ret = None
    /\ call_ret' = Some(RatioTextFromBoxes(Val(call_args)))
    /\ UNCHANGED <<call_args, ocr_image, ocr_fast, ocr_runs, window_vars>>

NextBox ==
    \/ ReadBoxes
    \/ TextFromBoxes

BoxSpec == InitStability /\ [][NextBox]_vars

(***************************************************************************)
(* One cycle's recognition calls (_capture_and_ocr, lines 984-993).        *)
(***************************************************************************)

(* What the recognizers return on the three grabbed images: for each item  *)
(* the value of a fast call and the value of a thorough call.              *)
GrabbedImages ==
    [ratio_fast : Opt(RatioPairs), ratio_full : Opt(RatioPairs),
     left_fast : Opt(BoxValues), left_full : Opt(BoxValues),
     right_fast : Opt(BoxValues), right_full : Opt(BoxValues)]

OcrCall(item, fast, value) == [item |-> item, fast |-> fast, value |-> value]

(* The recognizer calls of one cycle in program order: three fast calls,   *)
(* then a thorough call for each item whose fast call returned None.       *)
RecognitionCalls(g) ==
    <<OcrCall("ratio", TRUE, g.ratio_fast),
      OcrCall("left", TRUE, g.left_fast),
      OcrCall("right", TRUE, g.right_fast)>>
    \o (IF g.ratio_fast = None THEN <<OcrCall("ratio", FALSE, g.ratio_full)>> ELSE <<>>)
    \o (IF g.left_fast = None THEN <<OcrCall("left", FALSE, g.left_full)>> ELSE <<>>)
    \o (IF g.right_fast = None THEN <<OcrCall("right", FALSE, g.right_full)>> ELSE <<>>)

(* The values the locals hold when the ParseResult is built.               *)
RecognizedValues(g) ==
    [ratio |-> Escalate(g.ratio_fast, g.ratio_full),
     left |-> Escalate(g.left_fast, g.left_full),
     right |-> Escalate(g.right_fast, g.right_full)]

(* The three regions are grabbed (lines 979-982).                          *)
GrabRegions ==
    /\ call_args = None
    /\ \E g \in GrabbedImages : call_args' = Some(g)
    /\ call_ret' = None
    /\ UNCHANGED <<ocr_image, ocr_fast, ocr_runs, window_vars>>

(* The recognition part of MainWindow._capture_and_ocr on the grabbed      *)
(* images.                                                                 *)
CaptureAndOcr ==
    /\ call_args # None
    /\ call_ret = None
    /\ call_ret' = Some([calls |-> RecognitionCalls(Val(call_args)),
                         values |-> RecognizedValues(Val(call_args))])
    /\ UNCHANGED <<call_args, ocr_image, ocr_fast, ocr_runs, window_vars>>

NextCapture ==
    \/ GrabRegions
    \/ CaptureAndOcr

CaptureSpec == InitStability /\ [][NextCapture]_vars

-----------------------------------------------------------------------------
(* Properties.                                                             *)

(* The reading the next _handle_result call is given.                      *)
Handled == Val(Head(events).result)

(* Whether a history entry's pre-state is the empty StabilityState.        *)
WasEmpty(h) == h.last_good = None /\ h.pending_key = None /\ h.pending_count = 0

(* C1: debounce commit.  When _handle_result is given a valid reading R    *)
(* right after a valid reading with the same key that was handled from an  *)
(* empty StabilityState, lastGood is still empty before this second        *)
(* reading and is the second reading after it.                             *)
C1_DebounceCommit ==
    [][HandleResult =>
        ((/\ IsValidResult(Handled)
          /\ last_handled # <<>>
          /\ last_handled[1].key = Some(Key(Handled))
          /\ WasEmpty(last_handled[1]))
         => (last_good = None /\ last_good' = Some(Handled)))]_vars

(* A state after the second of two valid same-key readings handled from    *)
(* the empty StabilityState: the second one is committed.                  *)
C1_Witness ==
    /\ Len(last_handled) = 2
    /\ WasEmpty(last_handled[2])
    /\ last_handled[2].key # None
    /\ last_handled[1].key = last_handled[2].key
    /\ last_handled[1].last_good = None
    /\ last_good # None
    /\ Some(Key(Val(last_good))) = last_handled[1].key
    /\ ui.raw_text = Some(Val(last_good).raw_text)

(* C2 as stated: for any prior StabilityState, after two consecutively     *)
(* handled valid readings R1, R2 with different keys lastGood is what it   *)
(* was before R1.                                                          *)
C2_AnyPriorState ==
    (/\ Len(last_handled) = 2
     /\ last_handled[2].key # None
     /\ last_handled[1].key # None
     /\ last_handled[1].key # last_handled[2].key)
    => last_good = last_handled[2].last_good

(* C2 amended: the same, provided pendingKey before R1 is not the key of   *)
(* R1 (as when the StabilityState before R1 is empty).                     *)
C2_DifferingKeysKeepLastGood ==
    (/\ Len(last_handled) = 2
     /\ last_handled[2].key # None
     /\ last_handled[1].key # None
     /\ last_handled[1].key # last_handled[2].key
     /\ last_handled[2].pending_key # last_handled[2].key)
    => last_good = last_handled[2].last_good

(* A state after two valid readings with different keys, the first not     *)
(* matching pendingKey, with a committed lastGood that survived them.      *)
C2_Witness ==
    /\ Len(last_handled) = 2
    /\ last_handled[2].key # None
    /\ last_handled[1].key # None
    /\ last_handled[1].key # last_handled[2].key
    /\ last_handled[2].pending_key # last_handled[2].key
    /\ last_good # None
    /\ last_good = last_handled[2].last_good

(* C3: _handle_result given an invalid reading while lastGood holds a      *)
(* committed reading leaves lastGood unchanged.                            *)
C3_InvalidKeepsLastGood ==
    [][HandleResult =>
        ((~IsValidResult(Handled) /\ last_good # None)
         => last_good' = last_good)]_vars

(* A state after two invalid readings in a row, lastGood still held.       *)
C3_Witness ==
    /\ Len(last_handled) = 2
    /\ last_handled[1].key = None
    /\ last_handled[2].key = None
    /\ last_handled[2].last_good # None
    /\ last_good = last_handled[2].last_good
    /\ bad_streak >= 2

(* C9: display policy.  _handle_result displays the reading it is given    *)
(* when that is valid, committed or not; otherwise lastGood when present,  *)
(* and the invalid reading itself when not.                                *)
C9_DisplayPolicy ==
    [][HandleResult =>
        ui'.display =
            Some(IF IsValidResult(Handled) THEN Handled
                 ELSE IF last_good # None THEN Val(last_good)
                 ELSE Handled)]_vars

(* A valid reading seen once is displayed while another reading is         *)
(* lastGood.                                                               *)
C9_Witness ==
    /\ last_handled # <<>>
    /\ last_handled[1].key # None
    /\ pending_count = 1
    /\ last_good # None
    /\ ui.display # None
    /\ ui.display # last_good
    /\ Some(Key(Val(ui.display))) = pending_key

(* C10: _handle_result given an invalid reading with lastGood present and  *)
(* badStreak, this reading counted, at most 3 shows the holding status.    *)
C10_HoldingStatus ==
    [][HandleResult =>
        ((~IsValidResult(Handled) /\ last_good' # None /\ bad_streak' <= 3)
         => status' = StatusHolding)]_vars

(* The third invalid reading since the commit is still held.               *)
C10_Witness ==
    /\ last_handled # <<>>
    /\ last_handled[1].key = None
    /\ last_good # None
    /\ bad_streak = 3
    /\ status = StatusHolding

(* A capture-and-recognize cycle is in flight from the start of its worker *)
(* thread until its result or error has been handled.                      *)
InFlight == Len(threads) + Len(events)

(* C4: at most one cycle is in flight; a tick that fires while the busy    *)
(* flag is set starts no worker and leaves nothing behind, and when a      *)
(* handler finishes a cycle no other cycle is running or queued.           *)
C4_OneCycleInFlight ==
    /\ [](InFlight <= 1)
    /\ [][((TimerTick \/ OneShotTick) /\ busy)
            => (threads' = threads /\ events' = events /\ busy'
                /\ one_shots' <= one_shots)]_vars
    /\ [][(HandleResult \/ HandleError) => (InFlight' = 0 /\ ~busy')]_vars

(* A single-shot tick scheduled by a reset trigger during a cycle has      *)
(* fired while the cycle was still running, and only that cycle exists.    *)
C4_Witness ==
    /\ busy
    /\ Len(threads) = 1
    /\ threads[1].stale
    /\ events = <<>>
    /\ one_shots = 0

(* C5: every started cycle has exactly one report (its running worker or   *)
(* its queued result or error) outstanding while busy is set; handling a   *)
(* result or an error clears busy; busy is eventually cleared; and a tick  *)
(* that fires with busy clear, not paused, starts a cycle.                 *)
C5_CycleReportsOnce ==
    /\ [](busy <=> InFlight = 1)
    /\ [](InFlight <= 1)
    /\ [][(HandleResult \/ HandleError) => ~busy']_vars
    /\ [][((TimerTick \/ OneShotTick) /\ ~busy /\ ~paused /\ RegionsReady)
            => (busy' /\ Len(threads') = 1)]_vars
    /\ (busy ~> ~busy)

(* A cycle that failed has been handled: the error is the status and the   *)
(* busy flag is clear.                                                     *)
C5_Witness ==
    /\ status \in {ErrorNotFound, ErrorGeneric}
    /\ ~busy
    /\ InFlight = 0
    /\ RegionsReady

C7_StaleReadingIgnored ==
    [][(HandleResult /\ Head(events).stale)
        => UNCHANGED <<pending_key, pending_count, last_good, last_inputs>>]_vars

(* C8: while paused no tick starts a cycle; a cycle in flight while paused *)
(* can still finish and be handled, and handling its result while paused   *)
(* applies the debounce update and clears busy.                            *)
C8_PauseKeepsCycle ==
    /\ [][((TimerTick \/ OneShotTick) /\ paused)
            => UNCHANGED <<busy, threads, events>>]_vars
    /\ [][paused => Len(threads') <= Len(threads)]_vars
    /\ []((paused /\ threads # <<>>) => ENABLED (WorkerResult \/ WorkerError))
    /\ []((paused /\ events # <<>>) => ENABLED (HandleResult \/ HandleError))
    /\ [][(HandleResult /\ paused)
            => (/\ ~busy'
                /\ IsValidResult(Handled) =>
                     (/\ pending_key' = Some(Key(Handled))
                      /\ pending_count' >= 1)
                /\ ~IsValidResult(Handled) =>
                     (/\ pending_key' = None
                      /\ pending_count' = 0
                      /\ bad_streak' = bad_streak + 1))]_vars

(* The result of a cycle was handled after the pause: a valid reading is   *)
(* pending, the status is the handler's, busy is clear, still paused.      *)
C8_Witness ==
    /\ paused
    /\ ~busy
    /\ InFlight = 0
    /\ pending_count = 1
    /\ status \in {StatusUpdated, StatusLookingWant, StatusLookingHave}
    /\ last_handled # <<>>

-----------------------------------------------------------------------------
(* The statuses a handled reading can leave.                               *)

SearchingStatuses == {StatusLookingRatio, StatusLookingWant, StatusLookingHave}

(* C11: every invalid reading handled by _handle_result leaves a status    *)
(* that is one of the "Looking for ..." messages or the holding message.   *)
C11_InvalidShowsSearching ==
    [][(HandleResult /\ ~IsValidResult(Handled))
        => status' \in SearchingStatuses \cup {StatusHolding}]_vars

(* C13: a reading whose denominator is missing or 0 has no usable ratio,   *)
(* is not valid, does not become pending or lastGood when handled, and     *)
(* both of its expected values are None.                                   *)
C13_ZeroDenominatorUnusable ==
    [][HandleResult =>
        ((Handled.ratio_den = None \/ Val(Handled.ratio_den) = 0)
         => (/\ ~HasRatio(Handled)
             /\ pending_key' = None
             /\ pending_count' = 0
             /\ last_good' = last_good
             /\ last_good' # Some(Handled)
             /\ (last_good = None =>
                    (/\ ui'.display = Some(Handled)
                     /\ ui'.expected_left = None
                     /\ ui'.expected_right = None))))]_vars

(* A reading 3:0 with both box values was handled and is displayed with    *)
(* no expected value; nothing is pending.                                  *)
C13_Witness ==
    /\ ui.display # None
    /\ Val(ui.display).ratio_den = Some(0)
    /\ Val(ui.display).left_value = Some(50)
    /\ Val(ui.display).right_value = Some(50)
    /\ ui.expected_left = None
    /\ ui.expected_right = None
    /\ pending_key = None
    /\ last_good = None
    /\ bad_streak >= 1

(* C16: the confidence shown is 50 for a displayed reading with a ratio    *)
(* whose denominator is not 0, plus 25 for a present left value, plus 25   *)
(* for a present right value, so one of 0, 25, 50, 75, 100.                *)
C16_ConfidenceScore ==
    ui.confidence # None =>
        LET d == Val(ui.display)
            usable == /\ d.ratio_num # None
                      /\ d.ratio_den # None
                      /\ Val(d.ratio_den) # 0
        IN  /\ Val(ui.confidence) \in {0, 25, 50, 75, 100}
            /\ Val(ui.confidence) =
                  (IF usable THEN 50 ELSE 0)
                  + (IF d.left_value # None THEN 25 ELSE 0)
                  + (IF d.right_value # None THEN 25 ELSE 0)

(* A reading with a 3:0 ratio and one box value is displayed at 25.        *)
C16_Witness ==
    /\ ui.confidence = Some(25)
    /\ Val(ui.display).ratio_num # None
    /\ Val(ui.display).ratio_den = Some(0)

(* C20 as stated: a valid reading with a key other than pendingKey sets    *)
(* pendingCount to 1 and increments badStreak; an invalid reading sets     *)
(* pendingCount to 0 and increments badStreak; pendingCount is incremented *)
(* only for a reading whose key is pendingKey.                             *)
C20_MismatchCountsAsBad ==
    [][HandleResult =>
        (/\ (IsValidResult(Handled) /\ Some(Key(Handled)) # pending_key)
               => (pending_count' = 1 /\ bad_streak' = bad_streak + 1)
         /\ ~IsValidResult(Handled)
               => (pending_count' = 0 /\ bad_streak' = bad_streak + 1)
         /\ (pending_count >= 1 /\ pending_count' = pending_count + 1)
               => (IsValidResult(Handled) /\ Some(Key(Handled)) = pending_key))]_vars

(* C20 amended: a valid reading with a key other than pendingKey sets      *)
(* pendingCount to 1 and leaves badStreak as it was; an invalid reading    *)
(* sets pendingCount to 0 and increments badStreak; pendingCount is        *)
(* incremented only for a reading whose key is pendingKey.                 *)
C20_MismatchKeepsBadStreak ==
    [][HandleResult =>
        (/\ (IsValidResult(Handled) /\ Some(Key(Handled)) # pending_key)
               => (pending_count' = 1 /\ bad_streak' = bad_streak)
         /\ ~IsValidResult(Handled)
               => (pending_count' = 0 /\ bad_streak' = bad_streak + 1)
         /\ (pending_count >= 1 /\ pending_count' = pending_count + 1)
               => (IsValidResult(Handled) /\ Some(Key(Handled)) = pending_key))]_vars

(* A valid reading whose key differs from the pending one was handled      *)
(* after an invalid one: it is pending once and badStreak is still 1.      *)
C20_Witness ==
    /\ last_handled # <<>>
    /\ last_handled[1].key # None
    /\ last_handled[1].pending_key # None
    /\ last_handled[1].key # last_handled[1].pending_key
    /\ pending_count = 1
    /\ bad_streak = 1

-----------------------------------------------------------------------------
(* The expected values and the direction resolver.                         *)

(* The reading displayed by the _handle_result call of a step.             *)
Shown == Val(ui'.display)

DeltaRule ==
    /\ HandleResult
    /\ calc_mode = "auto"
    /\ Shown.left_value # None
    /\ Shown.right_value # None
    /\ last_inputs # None

LeftDelta == Abs(Val(Shown.left_value) - Val(last_inputs)[1])

RightDelta == Abs(Val(Shown.right_value) - Val(last_inputs)[2])

C15_ZeroDeltasKeepDirection ==
    [][(DeltaRule /\ LeftDelta = 0 /\ RightDelta = 0 /\ ui.mode = auto_direction)
        => (ui'.mode = ui.mode /\ auto_direction' = auto_direction)]_vars

-----------------------------------------------------------------------------
(* The ratio engine.                                                       *)

C18_ReturnedSidesPositive ==
    \A i \in DOMAIN ocr_runs :
        ocr_runs[i].out.num # None =>
            (Val(ocr_runs[i].out.num) > 0 /\ Val(ocr_runs[i].out.den) > 0)

(* C19: when candidates were accumulated, the returned key is a candidate  *)
(* whose (count, score) is the lexicographic maximum: no candidate has     *)
(* more votes, and none with as many votes has a higher score.             *)
C19_VotesThenScore ==
    \A i \in DOMAIN ocr_runs :
        LET map == ocr_runs[i].candidate_map
        IN  map # <<>> =>
              \E k \in DOMAIN map :
                  /\ ocr_runs[i].out.num = Some(map[k].key[1])
                  /\ ocr_runs[i].out.den = Some(map[k].key[2])
                  /\ \A j \in DOMAIN map :
                        /\ map[j].count <= map[k].count
                        /\ map[j].count = map[k].count => map[j].score <= map[k].score

(* A key with two votes was returned although a key with one vote has the  *)
(* higher score.                                                           *)
C19_Witness ==
    /\ ocr_runs # <<>>
    /\ \E k, j \in DOMAIN ocr_runs[1].candidate_map :
          LET map == ocr_runs[1].candidate_map
          IN  /\ ocr_runs[1].out.num = Some(map[k].key[1])
              /\ ocr_runs[1].out.den = Some(map[k].key[2])
              /\ map[k].count = 2
              /\ map[j].count = 1
              /\ map[j].score > map[k].score

-----------------------------------------------------------------------------
(* The stability machine across errors, resets and holds.                  *)

(* C27: lastGood is empty or a valid reading, and a step stores a reading  *)
(* as lastGood only if it is valid and the reading handled just before it  *)
(* had the same key; no other step stores anything in lastGood.            *)
C27_LastGoodIsRepeatedValid ==
    /\ [](last_good # None => IsValidResult(Val(last_good)))
    /\ [][HandleResult =>
            \/ last_good' = last_good
            \/ /\ last_good' = Some(Handled)
               /\ IsValidResult(Handled)
               /\ last_handled # <<>>
               /\ last_handled[1].key = Some(Key(Handled))]_vars
    /\ [][last_good' # last_good => (HandleResult \/ last_good' = None)]_vars

(* A reading was committed after an error was handled between its two      *)
(* occurrences, and a later invalid reading did not remove it.             *)
C27_Witness ==
    /\ last_good # None
    /\ Len(last_handled) = 2
    /\ last_handled[1].key = None
    /\ last_handled[2].key = Some(Key(Val(last_good)))
    /\ last_handled[2].last_good = None
    /\ bad_streak = 1

(* The StabilityState fields and lastAcceptedInputs.                       *)
stability == <<last_good, pending_key, pending_count, bad_streak, last_inputs>>

(* C28: _handle_error leaves lastGood, pendingKey, pendingCount, badStreak *)
(* and lastAcceptedInputs unchanged, sets the status and clears busy; a    *)
(* valid reading handled next after an error, with the key that was        *)
(* pending before the error, is committed.                                 *)
C28_ErrorKeepsStability ==
    /\ [][HandleError =>
            (/\ UNCHANGED stability
             /\ status' = Head(events).message
             /\ ~busy')]_vars
    /\ [][(/\ HandleResult
           /\ status \in {ErrorNotFound, ErrorGeneric}
           /\ IsValidResult(Handled)
           /\ last_handled # <<>>
           /\ last_handled[1].key = Some(Key(Handled)))
          => last_good' = Some(Handled)]_vars

(* Valid R was handled, then an error, and R is queued again with nothing  *)
(* committed yet.                                                          *)
C28_Witness ==
    /\ status \in {ErrorNotFound, ErrorGeneric}
    /\ last_good = None
    /\ pending_count = 1
    /\ events # <<>>
    /\ Head(events).kind = "result"
    /\ IsValidResult(Handled)
    /\ pending_key = Some(Key(Handled))
    /\ last_handled # <<>>
    /\ last_handled[1].key = pending_key

(* C29: badStreak becomes 0 only in a step that commits lastGood; a valid  *)
(* reading that does not commit and every reset trigger leave it as it     *)
(* was; an invalid reading adds 1.                                         *)
C29_BadStreakSinceCommit ==
    /\ [][(bad_streak' = 0 /\ bad_streak # 0)
            => (/\ HandleResult
                /\ IsValidResult(Handled)
                /\ pending_count' >= 2
                /\ last_good' = Some(Handled))]_vars
    /\ [][(HandleResult /\ IsValidResult(Handled) /\ pending_count' < 2)
            => bad_streak' = bad_streak]_vars
    /\ [][(HandleResult /\ ~IsValidResult(Handled))
            => bad_streak' = bad_streak + 1]_vars
    /\ [][(SelectRegion \/ ToggleSwap \/ SelectMode)
            => bad_streak' = bad_streak]_vars

(* An invalid, a valid and an invalid reading were handled with no commit: *)
(* badStreak is 2 although the invalid readings were not consecutive.      *)
C29_Witness ==
    /\ Len(last_handled) = 2
    /\ last_handled[2].key # None
    /\ last_handled[2].pending_key = None
    /\ last_handled[1].key = None
    /\ last_good = None
    /\ bad_streak = 2

(* A hold in auto mode: an invalid reading is handled while lastGood is    *)
(* set.                                                                    *)
Hold ==
    /\ HandleResult
    /\ calc_mode = "auto"
    /\ ~IsValidResult(Handled)
    /\ last_good # None

(* C30 as stated: a hold leaves the resolved direction, the recommended    *)
(* side and lastAcceptedInputs as they were after the preceding handled    *)
(* reading.                                                                *)
C30_HoldKeepsDirection ==
    [][Hold =>
        (/\ ui'.mode = ui.mode
         /\ ui'.recommended_label = ui.recommended_label
         /\ last_inputs' = last_inputs)]_vars

(* C26: in one cycle, for each of the ratio, the left box and the right    *)
(* box, a thorough call is made only if the fast call for the same item    *)
(* returned no value, and a value returned by the fast call is the value   *)
(* the cycle keeps for that item.                                          *)
Items == {"ratio", "left", "right"}

CallsOf(calls, item, fast) ==
    {i \in DOMAIN calls : calls[i].item = item /\ calls[i].fast = fast}

C26_EscalationPerItem ==
    call_ret # None =>
        LET calls == Val(call_ret).calls
            values == Val(call_ret).values
        IN  \A item \in Items :
                /\ Cardinality(CallsOf(calls, item, TRUE)) = 1
                /\ \A i \in CallsOf(calls, item, TRUE) :
                      /\ (CallsOf(calls, item, FALSE) # {}) => calls[i].value = None
                      /\ calls[i].value # None => values[item] = calls[i].value
                      /\ \A j \in CallsOf(calls, item, FALSE) : i < j

(* The fast ratio call returned a value while the fast left call did not:  *)
(* only the left box was escalated, and a thorough ratio value that would  *)
(* differ was never asked for.                                             *)
C26_Witness ==
    /\ call_ret # None
    /\ Val(call_args).ratio_fast # None
    /\ Val(call_args).ratio_full # None
    /\ Val(call_args).ratio_full # Val(call_args).ratio_fast
    /\ Val(call_args).left_fast = None
    /\ Val(call_args).left_full # None
    /\ CallsOf(Val(call_ret).calls, "ratio", FALSE) = {}
    /\ CallsOf(Val(call_ret).calls, "left", FALSE) # {}
    /\ Val(call_ret).values["left"] = Val(call_args).left_full

(* C21 as stated: two _ocr_ratio calls whose passes read the same texts in *)
(* different orders return the same ratio.                                 *)
C21_OrderIndependent ==
    Len(ocr_runs) = 2 =>
        <<ocr_runs[1].out.num, ocr_runs[1].out.den>>
            = <<ocr_runs[2].out.num, ocr_runs[2].out.den>>

(* C22 as stated: _is_binary_image accepts a variant if and only if the    *)
(* set of intensities occurring in it is exactly {0,255} or exactly {0,1}. *)
Range(seq) == {seq[i] : i \in DOMAIN seq}

C22_BinaryIffTwoValued ==
    call_ret # None =>
        LET r == Val(call_ret)
        IN  \A i \in DOMAIN r.variants :
                (i \in Range(r.scan.accepted))
                    <=> (r.variants[i].pixels \in {{0, 255}, {0, 1}})

(* C23 as stated: the box correction and the gap split each run on every   *)
(* binary variant of the call.                                             *)
C23_EveryBinaryVariantChecked ==
    call_ret # None =>
        LET r == Val(call_ret)
        IN  \A i \in Range(r.scan.accepted) :
                i \in Range(r.scan.boxes_on) /\ i \in Range(r.scan.split_on)

(* C23 amended: within one _ocr_ratio call the box correction and the gap  *)
(* split each run at most once, on the first variant that                  *)
(* _is_binary_image accepts, and not at all when it accepts none.          *)
C23_FirstAcceptedVariantChecked ==
    call_ret # None =>
        LET scan == Val(call_ret).scan
            first == IF scan.accepted = <<>> THEN <<>> ELSE <<scan.accepted[1]>>
        IN  scan.boxes_on = first /\ scan.split_on = first

(* A thorough call in which both binarized variants of several threshold   *)
(* levels are accepted, and the sub-steps ran on one variant.              *)
C23_Witness ==
    /\ call_ret # None
    /\ ~Val(call_args).fast
    /\ Len(Val(call_ret).scan.accepted) >= 4
    /\ Len(Val(call_ret).scan.boxes_on) = 1
    /\ Len(Val(call_ret).scan.split_on) = 1
    /\ Val(call_ret).variants[Val(call_ret).scan.boxes_on[1]].kind = "threshold"

(* C24 as stated: whatever the height, an accepted split has a minimum     *)
(* middle-column count of at most 15% of the height, and a minimum above   *)
(* 15% of the height is rejected.                                          *)
MinOfMiddle(a) ==
    CHOOSE m \in {a.counts[x] : x \in MiddleColumns(a.width)} :
        \A y \in MiddleColumns(a.width) : m <= a.counts[y]

C24_RejectsAboveFifteenPercent ==
    call_ret # None =>
        LET a == Val(call_args)
            r == Val(call_ret)
        IN  /\ r.split # None => 100 * MinOfMiddle(a) <= 15 * a.height
            /\ 100 * MinOfMiddle(a) > 15 * a.height => r.split = None

(* C24 amended: a split is returned exactly when the image is at least 6   *)
(* wide and 4 high, the minimum middle-column count is at most the larger  *)
(* of 2 and 15% of the height (rounded down), and both parts are at least  *)
(* 2 wide; so for heights below 14 a minimum of 1 or 2 is accepted.        *)
C24_RejectsAboveLimit ==
    call_ret # None =>
        LET a == Val(call_args)
            r == Val(call_ret)
            m == MinOfMiddle(a)
            at == CHOOSE x \in MiddleColumns(a.width) :
                      /\ a.counts[x] = m
                      /\ \A y \in MiddleColumns(a.width) : y < x => a.counts[y] # m
        IN  (r.split # None)
                <=> (/\ a.width >= 6
                     /\ a.height >= 4
                     /\ (100 * m <= 15 * a.height \/ m <= 2)
                     /\ at >= 2
                     /\ a.width - at - 1 >= 2)

(* An image 13 high whose emptiest middle column holds 2 foreground        *)
(* pixels, more than 15% of the height, is split.                          *)
C24_Witness ==
    /\ call_ret # None
    /\ Val(call_args).height = 13
    /\ Val(call_ret).min_count = Some(2)
    /\ Val(call_ret).split # None

(* C25 as stated: when the shape classifier is inconclusive for a          *)
(* character recognized as "1" or "7", the corrected text has the          *)
(* recognizer's character at that position.                                *)
Inconclusive(line) == line.char \in {"1", "7"} /\ line.classified = None

C25_InconclusiveKeepsGuess ==
    call_ret # None =>
        LET data == Val(call_args)
            r == Val(call_ret)
        IN  \A k \in DOMAIN r.items :
                Inconclusive(data[r.items[k].line])
                    => r.text[k] = data[r.items[k].line].char

(* C25 amended: when the classifier is inconclusive, a "7" whose box is    *)
(* narrower than 0.35 of its height becomes "1", a "1" whose box is wider  *)
(* than 0.6 of its height becomes "7", and otherwise the recognizer's      *)
(* character is kept.                                                      *)
C25_InconclusiveUsesAspect ==
    call_ret # None =>
        LET data == Val(call_args)
            r == Val(call_ret)
        IN  \A k \in DOMAIN r.items :
                LET line == data[r.items[k].line]
                    narrow == 100 * line.width < 35 * line.box_height
                    wide == 100 * line.width > 60 * line.box_height
                IN  Inconclusive(line) =>
                        r.text[k] = (CASE line.char = "7" /\ narrow -> "1"
                                       [] line.char = "1" /\ wide -> "7"
                                       [] OTHER -> line.char)

(* The engine read "7" in a narrow box right of another box, the           *)
(* classifier was inconclusive, and the corrected text has "1" there.      *)
C25_Witness ==
    /\ call_ret # None
    /\ Len(Val(call_ret).items) = 2
    /\ Val(call_ret).items[2].line = 1
    /\ Inconclusive(Val(call_args)[1])
    /\ Val(call_args)[1].char = "7"
    /\ Val(call_ret).text[2] = "1"

====
